---------------------------- MODULE Spec2Model ----------------------------
(***************************************************************************)
(* Model of the mini-scrapper crawler: the URL helpers (url_utils.py), the *)
(* link extractor (link_extractor.py), the profile merger                  *)
(* (schema_extractor.merge_business_info) and the crawl loop               *)
(* (crawler.scrape_priority_paths).                                        *)
(*                                                                         *)
(* Strings that the code inspects character by character (URL paths and    *)
(* path patterns) are sequences of one-character strings.  A URL string is *)
(* the record of the components urlparse splits it into; two URL strings   *)
(* are equal exactly when their records are (query and params are always   *)
(* empty in the model).                                                    *)
(***************************************************************************)
EXTENDS Integers, Sequences, FiniteSets, TLC

VARIABLES
    config,         \* the ScraperConfig load_config returned
    max_pages,      \* the page ceiling the crawl was started with
    visited,        \* set of URLs
    to_visit,       \* the frontier: a FIFO queue of URLs
    results,        \* CrawlResults: counters, URL lists, business_info
    info_complete,  \* the completeness verdict of line 229
    pc,             \* "loop", or the way the loop was left
    links,          \* the links extracted from the last response (line 240)
    new_count,      \* links of the last response put on the frontier (line 241)
    external_count, \* links of the last response on another domain (line 241)
    fetch_log,      \* history: the URLs passed to _fetch_page, in order
    enqueue_log,    \* history: the URLs put on the frontier, in order
    depth_log,      \* history: the link depth of each entry of enqueue_log
    merged,         \* history: the page-infos merged into the profile, in order
    saved,          \* history: the URLs passed to save_page_with_schema (line 207), in order
    status_code,    \* the status code _fetch_page returned last (line 187), <<>> for None
    error,          \* the error _fetch_page returned last (line 187), "None" for None
    request_log,    \* history: the URLs of the requests.get calls (line 64), in order
    returned,       \* what scrape_priority_paths handed to its caller: <<>> or <<dict>>
    max_retries,    \* retry_with_backoff: the max_retries argument
    backoff_factor, \* retry_with_backoff: the backoff_factor argument
    attempt,        \* wrapper: the loop variable of line 60
    calls,          \* history: how often the wrapped function was invoked
    waits,          \* history: the arguments of time.sleep, in order
    last_result,    \* history: what the last invocation of the function did, <<>> at first
    outcome,        \* what the wrapper delivered: <<>>, or one entry per delivery
    util_in,        \* a call of a url_utils / config function: [fn, args]
    util_out        \* its result, <<>> while the call is pending

\* the variables of the crawl loop
crawlVars == <<config, max_pages, visited, to_visit, results, info_complete, pc, links,
               new_count, external_count, fetch_log, enqueue_log, depth_log, merged, saved,
               status_code, error, request_log, returned>>

\* the variables of one call of a function wrapped by retry_with_backoff
retryVars == <<max_retries, backoff_factor, attempt, calls, waits, last_result, outcome>>

\* the variables of one call of a pure function
utilVars == <<util_in, util_out>>

vars == <<crawlVars, retryVars, utilVars>>

(***************************************************************************)
(* Bounds of the model.                                                    *)
(***************************************************************************)
\* largest page ceiling (max_pages) a crawl is started with
MaxPagesBound == 4
\* largest number of href attributes on one fetched page
MaxHrefs == 2
\* largest number of page-infos merged in the merger's own specification
MaxMerges == 3
\* largest max_retries a wrapper is made with
MaxRetriesBound == 3
\* largest backoff_factor a wrapper is made with
MaxBackoffFactor == 2

(***************************************************************************)
(* Generic sequence helpers (Python str / list primitives).                *)
(***************************************************************************)
\* s.startswith(p)
StartsWith(s, p) == Len(p) <= Len(s) /\ SubSeq(s, 1, Len(p)) = p

\* s.endswith(c) for a one-character c
EndsWith(s, c) == Len(s) > 0 /\ s[Len(s)] = c

\* s.rstrip(c): every trailing c removed
RECURSIVE RStrip(_, _)
RStrip(s, c) == IF EndsWith(s, c) THEN RStrip(SubSeq(s, 1, Len(s) - 1), c) ELSE s

\* x in list
InSeq(x, s) == \E i \in 1..Len(s) : s[i] = x

\* the elements of a list
Range(s) == {s[i] : i \in 1..Len(s)}

\* the orders in which a Python set can be iterated
Orderings(S) == {o \in [1..Cardinality(S) -> S] : Range(o) = S}

(***************************************************************************)
(* url_utils.py                                                            *)
(***************************************************************************)
\* Python's None, as a URL-shaped value
None == [scheme |-> "None", netloc |-> "", path |-> <<>>]

\* a URL string without fragment: urlunparse((scheme, netloc, path, "", "", ""))
Url(scheme, netloc, path) == [scheme |-> scheme, netloc |-> netloc, path |-> path]

\* str.lower() on the host names of the model
Lower(h) == CASE h = "A.COM" -> "a.com"
              [] OTHER -> h

\* urljoin's path resolution: an absolute reference path replaces the base
\* path, a relative one replaces the last segment of the base path, an empty
\* one keeps the base path
RECURSIVE DirOf(_)
DirOf(p) == IF p = <<>> THEN <<"/">>
            ELSE IF EndsWith(p, "/") THEN p
            ELSE DirOf(SubSeq(p, 1, Len(p) - 1))

JoinPath(basePath, refPath) ==
    IF refPath = <<>> THEN basePath
    ELSE IF refPath[1] = "/" THEN refPath
    ELSE DirOf(basePath) \o refPath

\* urljoin(base_url, url) followed by urlparse, fragment dropped
UrlJoin(base, ref) ==
    IF ref.scheme # "" THEN Url(ref.scheme, ref.netloc, ref.path)
    ELSE IF ref.netloc # "" THEN Url(base.scheme, ref.netloc, ref.path)
    ELSE Url(base.scheme, base.netloc, JoinPath(base.path, ref.path))

\* lines 43-45: one trailing slash removed unless the path is the root
StripTrailingSlash(u) ==
    IF EndsWith(u.path, "/") /\ Len(u.path) > 1
    THEN Url(u.scheme, u.netloc, SubSeq(u.path, 1, Len(u.path) - 1))
    ELSE u

\* normalize_url(base_url, url); an href is the record
\* [scheme, netloc, path, fragment] of the attribute's text
normalize_url(base, ref) ==
    IF ref.scheme = "" /\ ref.netloc = "" /\ ref.path = <<>> /\ ref.fragment = ""
    THEN None                                   \* empty string
    ELSE IF ref.scheme = "" /\ ref.netloc = "" /\ ref.path = <<>>
    THEN None                                   \* starts with "#"
    ELSE IF ref.scheme \notin {"", "http", "https"}
    THEN None                                   \* mailto:, tel:, javascript:
    ELSE StripTrailingSlash(UrlJoin(base, ref))

\* get_domain(url)
get_domain(u) == Lower(u.netloc)

\* a domain test that lets the www subdomain of the domain through
SameDomainOrSubdomain(u, domain) ==
    get_domain(u) # "" /\ domain # "" /\ get_domain(u) \in {Lower(domain), "www." \o Lower(domain)}

\* is_same_domain(url, domain)
is_same_domain(u, domain) ==
    IF get_domain(u) # "" /\ domain # "" THEN get_domain(u) = Lower(domain) ELSE FALSE

\* lines 73-78 and 101-106: the path the patterns are compared with
NormalizedPath(u) ==
    LET path == IF StartsWith(u.path, <<"/">>) THEN u.path ELSE <<"/">> \o u.path
    IN  IF path # <<"/">> THEN RStrip(path, "/") ELSE <<"/">>

\* lines 82 and 119: a pattern with its trailing slashes removed
NormalizedPattern(q) == IF q # <<"/">> THEN RStrip(q, "/") ELSE <<"/">>

\* a match on the bare prefix, with no check of the segment boundary
PrefixMatch(p, q) == StartsWith(p, q)

\* lines 85-89 and 122-126: equal, or followed by "/"
SegmentMatch(p, q) == StartsWith(p, q) /\ (p = q \/ StartsWith(p, q \o <<"/">>))

\* is_path_excluded(url, exclude_paths)
is_path_excluded(u, exclude_paths) ==
    \E i \in 1..Len(exclude_paths) :
        SegmentMatch(NormalizedPath(u), NormalizedPattern(exclude_paths[i]))

\* contains_priority_path(url, priority_paths)
contains_priority_path(u, priority_paths) ==
    \/ InSeq(<<"/">>, priority_paths) /\ NormalizedPath(u) = <<"/">>
    \/ \E i \in 1..Len(priority_paths) :
          /\ priority_paths[i] # <<"/">>
          /\ SegmentMatch(NormalizedPath(u), NormalizedPattern(priority_paths[i]))

(***************************************************************************)
(* link_extractor.py                                                       *)
(***************************************************************************)
\* extract_links(base_url, html): the set of normalized href values
extract_links(base, html) ==
    {normalize_url(base, h) : h \in html} \ {None}

(***************************************************************************)
(* Python dict primitives.  A dict is a function from its keys; the empty  *)
(* dict is <<>>.  An optional number (None or a value) is <<>> or <<v>>.   *)
(***************************************************************************)
\* d.get(k, default)
Get(d, k, default) == IF k \in DOMAIN d THEN d[k] ELSE default

\* d[k] = v
Put(d, k, v) == (k :> v) @@ d

\* a.update(b)
Update(a, b) == b @@ a

(***************************************************************************)
(* crawler._init_business_info and schema_extractor.extract_business_info: *)
(* the empty profile and the empty page-info.  An address component (a     *)
(* dict in the code) is one opaque non-empty item.                         *)
(***************************************************************************)
_init_business_info ==
    [rating |-> <<>>, review_count |-> <<>>, addresses |-> <<>>, areas_served |-> <<>>,
     hours |-> "", phones |-> <<>>, quote_url |-> "", services |-> <<>>,
     has_coupon |-> FALSE, has_emergency |-> FALSE, is_licensed |-> FALSE,
     license_number |-> "", business_name |-> "", founding_date |-> "", founders |-> <<>>]

EmptyPageInfo ==
    [business_name |-> "", description |-> "", website |-> "", logo |-> "", images |-> <<>>,
     rating |-> <<>>, review_count |-> <<>>, addresses |-> <<>>, address_components |-> <<>>,
     areas_served |-> <<>>, hours |-> "", phones |-> <<>>, emails |-> <<>>, quote_url |-> "",
     services |-> <<>>, categories |-> <<>>, price_range |-> "", payment_methods |-> <<>>,
     languages |-> <<>>, has_coupon |-> FALSE, has_emergency |-> FALSE, is_licensed |-> FALSE,
     license_number |-> "", founding_date |-> "", founders |-> <<>>, social_media |-> <<>>,
     meta_description |-> "", meta_keywords |-> <<>>]

(***************************************************************************)
(* schema_extractor.merge_business_info                                    *)
(***************************************************************************)
\* line 158-159: the keys merged as lists
ListKeys == <<"addresses", "address_components", "areas_served", "phones", "emails",
              "services", "categories", "payment_methods", "languages", "images",
              "meta_keywords">>

\* line 166-167: the keys merged first-non-empty-wins
StringKeys == <<"hours", "quote_url", "license_number", "business_name", "founding_date",
                "description", "website", "logo", "price_range", "meta_description">>

\* line 183: the keys merged with OR
BoolKeys == <<"has_coupon", "has_emergency", "is_licensed">>

\* line 188-194: the keys merged with max
NumberKeys == <<"rating", "review_count">>

\* a list merge that appends every truthy item, seen before or not
MergeItemNoDedup(list, item) ==
    IF item # "" THEN Append(list, item) ELSE list

\* lines 162-163: one item of a page list; list is accumulated.get(key, [])
MergeItem(list, item) ==
    IF item # "" /\ ~InSeq(item, list) THEN Append(list, item) ELSE list

\* a list merge in which the list of the page replaces the accumulated one
MergeItemsReplacing(list, items, i) == items

\* lines 161-163: the items of one page list, in page order
RECURSIVE MergeItems(_, _, _)
MergeItems(list, items, i) ==
    IF i > Len(items) THEN list
    ELSE MergeItems(MergeItem(list, items[i]), items, i + 1)

\* lines 158-163: every list key; setdefault creates a key of accumulated
\* when the first item is appended to it
MergeLists(acc, page_info) ==
    LET after(k) == IF k \in DOMAIN page_info
                    THEN MergeItems(Get(acc, k, <<>>), page_info[k], 1)
                    ELSE Get(acc, k, <<>>)
        created == {k \in Range(ListKeys) : after(k) # <<>>}
    IN  [k \in DOMAIN acc \cup created |->
            IF InSeq(k, ListKeys) THEN after(k) ELSE acc[k]]

\* a string merge in which the page's value replaces the kept one
MergeStringLastWins(acc, page_info, key) ==
    IF key \in DOMAIN page_info /\ page_info[key] # ""
    THEN page_info[key]
    ELSE Get(acc, key, "")

\* lines 168-169: the value of one first-wins string key ("" when still unset)
MergeString(acc, page_info, key) ==
    IF key \in DOMAIN page_info /\ page_info[key] # "" /\ Get(acc, key, "") = ""
    THEN page_info[key]
    ELSE Get(acc, key, "")

\* lines 166-169: every string key; a key absent from accumulated appears
\* when it is assigned
MergeStrings(acc, page_info) ==
    LET assigned == {k \in Range(StringKeys) : MergeString(acc, page_info, k) # ""}
    IN  [k \in DOMAIN acc \cup assigned |->
            IF InSeq(k, StringKeys) THEN MergeString(acc, page_info, k) ELSE acc[k]]

\* a social media merge in which the URL merged first is kept
MergeSocialFirstWins(acc, page_info) ==
    IF "social_media" \in DOMAIN page_info
    THEN Put(acc, "social_media", Update(page_info.social_media, Get(acc, "social_media", <<>>)))
    ELSE acc

\* lines 172-173
MergeSocial(acc, page_info) ==
    IF "social_media" \in DOMAIN page_info
    THEN Put(acc, "social_media", Update(Get(acc, "social_media", <<>>), page_info.social_media))
    ELSE acc

\* a founder merge in which a later founder replaces the kept one of the same name
MergeFounderLastWins(list, founder) ==
    IF founder.name = "" THEN list
    ELSE IF \E i \in 1..Len(list) : list[i].name = founder.name
    THEN [i \in 1..Len(list) |-> IF list[i].name = founder.name THEN founder ELSE list[i]]
    ELSE Append(list, founder)

\* lines 178-180: one founder; list is accumulated.get("founders", [])
MergeFounder(list, founder) ==
    IF founder.name # "" /\ ~\E i \in 1..Len(list) : list[i].name = founder.name
    THEN Append(list, founder)
    ELSE list

\* lines 177-180: the founders of the page, in page order
RECURSIVE MergeFounderItems(_, _, _)
MergeFounderItems(list, founders, i) ==
    IF i > Len(founders) THEN list
    ELSE MergeFounderItems(MergeFounder(list, founders[i]), founders, i + 1)

\* lines 176-180
MergeFounders(acc, page_info) ==
    LET after == IF "founders" \in DOMAIN page_info
                 THEN MergeFounderItems(Get(acc, "founders", <<>>), page_info.founders, 1)
                 ELSE Get(acc, "founders", <<>>)
    IN  IF "founders" \in DOMAIN acc \/ after # <<>>
        THEN Put(acc, "founders", after)
        ELSE acc

\* lines 183-185
MergeBooleans(acc, page_info) ==
    [k \in DOMAIN acc \cup (Range(BoolKeys) \cap DOMAIN page_info) |->
        IF InSeq(k, BoolKeys) /\ k \in DOMAIN page_info
        THEN Get(acc, k, FALSE) \/ page_info[k]
        ELSE acc[k]]

\* a Python number; float("nan") (line 251 accepts it) is a float that
\* compares false with every number
Num(v) == [nan |-> FALSE, v |-> v]

NaN == [nan |-> TRUE, v |-> 0]

\* lines 189, 193: a > b
Greater(a, b) == ~a.nan /\ ~b.nan /\ a.v > b.v

\* a number merge that keeps the value merged first
MergeNumberFirstWins(acc, page_info, key) ==
    IF key \in DOMAIN page_info /\ page_info[key] # <<>> /\ Get(acc, key, <<>>) = <<>>
    THEN Put(acc, key, page_info[key])
    ELSE acc

\* lines 188-190 and 192-194: one keep-the-highest key
MergeNumber(acc, page_info, key) ==
    IF key \in DOMAIN page_info /\ page_info[key] # <<>>
       /\ (Get(acc, key, <<>>) = <<>> \/ Greater(page_info[key][1], acc[key][1]))
    THEN Put(acc, key, page_info[key])
    ELSE acc

\* lines 188-194
MergeNumbers(acc, page_info) ==
    MergeNumber(MergeNumber(acc, page_info, "rating"), page_info, "review_count")

\* merge_business_info(accumulated, page_info): the new value of accumulated
merge_business_info(accumulated, page_info) ==
    MergeNumbers(
      MergeBooleans(
        MergeFounders(
          MergeSocial(
            MergeStrings(
              MergeLists(accumulated, page_info),
              page_info),
            page_info),
          page_info),
        page_info),
      page_info)

(***************************************************************************)
(* crawler._is_business_info_complete                                      *)
(***************************************************************************)
\* a completeness test that does not look at the hours
CompleteIgnoringHours(info) ==
    /\ Get(info, "business_name", "") # ""
    /\ Len(info.phones) > 0
    /\ Len(info.addresses) > 0
    /\ Len(info.services) > 0

\* lines 85-94: the five required fields
_is_business_info_complete(info) ==
    /\ Get(info, "business_name", "") # ""
    /\ Len(info.phones) > 0
    /\ Len(info.addresses) > 0
    /\ Len(info.services) > 0
    /\ Get(info, "hours", "") # ""


(***************************************************************************)
(* The site the crawl runs against: what a fetch can return.               *)
(***************************************************************************)
\* the text of an href attribute, as the components urlparse splits it into
Href(scheme, netloc, path, fragment) ==
    [scheme |-> scheme, netloc |-> netloc, path |-> path, fragment |-> fragment]

\* the href attributes a page of the site can carry
Hrefs ==
    { Href("", "", <<"/", "a">>, ""),               \* "/a"
      Href("", "", <<"/", "a", "/">>, ""),          \* "/a/"
      Href("", "", <<"/", "b">>, "f"),              \* "/b#f"
      Href("", "", <<"b">>, ""),                    \* "b"
      Href("", "", <<>>, "f"),                      \* "#f"
      Href("mailto", "", <<"x">>, ""),              \* "mailto:x"
      Href("https", "a.com", <<>>, ""),             \* "https://a.com"
      Href("https", "www.a.com", <<"/">>, "") }     \* "https://www.a.com/"

\* the href sets of one page
HrefSets == {html \in SUBSET Hrefs : Cardinality(html) <= MaxHrefs}

\* a page-info with the given fields set and every other field empty
PageInfo(fields) ==
    [k \in DOMAIN EmptyPageInfo |-> IF k \in DOMAIN fields THEN fields[k] ELSE EmptyPageInfo[k]]

\* what extract_business_info returns for the schema pages of the site
AboutInfo == PageInfo([business_name |-> "Acme", addresses |-> <<"1 Main St">>])

ContactInfo == PageInfo([phones |-> <<"+15551234567">>, hours |-> "Mo-Fr 09:00-17:00"])

FullInfo == PageInfo([business_name |-> "Acme Plumbing", addresses |-> <<"1 Main St">>,
                      phones |-> <<"+15559876543">>, services |-> <<"Plumbing">>,
                      hours |-> "24/7", has_emergency |-> TRUE])

CrawlPageInfos == {AboutInfo, ContactInfo, FullInfo}

\* a successful response: whether extract_json_ld_schemas finds a schema, and
\* what extract_business_info makes (or would make) of the page; a page
\* without schema carries phones and hours in its markup
Pages ==
    {[has_schema |-> FALSE, info |-> ContactInfo]}
        \cup [has_schema : {TRUE}, info : CrawlPageInfos]

\* what extract_links can return for a page at url
LinkSets(url) == {extract_links(url, html) : html \in HrefSets}

\* the configurations load_config can return
Configs ==
    { [exclude_paths |-> <<>>, priority_paths |-> <<<<"/">>, <<"/", "a">>>>],
      [exclude_paths |-> <<<<"/", "b">>>>, priority_paths |-> <<>>],
      [exclude_paths |-> <<<<"/">>>>, priority_paths |-> <<<<"/", "a">>>>] }

(***************************************************************************)
(* crawler.scrape_priority_paths                                           *)
(***************************************************************************)
\* error_handler.py line 12
DEFAULT_MAX_RETRIES == 3

\* error_handler.py line 13
DEFAULT_BACKOFF_FACTOR == 1

\* error_handler.py line 14
DEFAULT_RETRYABLE_STATUS_CODES == {500, 502, 503, 504, 429}

\* what the server does with one request: a status, or no response at all
ServerAnswers ==
    {[status |-> <<200>>, exc |-> "None"],
     [status |-> <<500>>, exc |-> "None"],
     [status |-> <<>>, exc |-> "ConnectionError"]}

\* crawler.py line 64: the requests.get calls of one _fetch_page(url)
Requests(url) == <<url>>

\* crawler.py lines 61-69: (response, status_code, error) for the server's
\* answer; raise_for_status turns a status of 400 or more into an HTTPError
_fetch_page(answer) ==
    IF answer.exc # "None"
    THEN [response |-> FALSE, status_code |-> <<>>, error |-> answer.exc]
    ELSE IF answer.status[1] >= 400
    THEN [response |-> FALSE, status_code |-> answer.status, error |-> "HTTPError"]
    ELSE [response |-> TRUE, status_code |-> answer.status, error |-> "None"]

\* no call of a wrapped function is in progress
RetryIdle ==
    /\ max_retries = 0
    /\ backoff_factor = 0
    /\ attempt = 0
    /\ calls = 0
    /\ waits = <<>>
    /\ last_result = <<>>
    /\ outcome = <<>>

\* no call of a pure function is in progress
UtilIdle ==
    /\ util_in = [fn |-> "none", args |-> <<>>]
    /\ util_out = <<>>

\* line 148: the start URL the caller gave, a page below the root
start_url == Url("https", "A.COM", <<"/", "a">>)

\* line 154: get_domain(start_url)
start_domain == get_domain(start_url)

\* line 159: the seed
homepage_url == Url("https", start_domain, <<"/">>)

\* line 162: CrawlResults(business_info=_init_business_info())
CrawlResults ==
    [total_pages_crawled |-> 0, priority_pages_found |-> 0, priority_pages_with_schema |-> 0,
     remaining_pages_found |-> 0, remaining_pages_with_schema |-> 0,
     priority_schemas_found |-> <<>>, remaining_schemas_found |-> <<>>,
     business_info |-> _init_business_info]

\* a loop condition that admits one page too many
LoopGuardOffByOne == results.total_pages_crawled <= max_pages

\* line 165: the while condition
LoopGuard == results.total_pages_crawled < max_pages

\* a stop test that ends the crawl as soon as the profile is complete
StopsCrawlWhenComplete(info, queue) == _is_business_info_complete(info)

\* a stop test that ends the crawl as soon as the queue is empty
StopsCrawlWhenQueueEmpty(info, queue) == Len(queue) = 0

\* a stop test that never ends the crawl after a page
StopsCrawlNever(info, queue) == FALSE

\* lines 229-233: the break after a processed page
StopsCrawl(info, queue) == _is_business_info_complete(info) /\ Len(queue) = 0

\* a visited set that forgets the dequeued URL
MarkVisitedForgets(v, url) == v

\* line 180: visited.add(url)
MarkVisited(v, url) == v \cup {url}

\* a link check that looks at visited only
AlreadySeenVisitedOnly(link, v, q) == link \in v

\* a link check that looks at the frontier only
AlreadySeenQueueOnly(link, v, q) == InSeq(link, q)

\* line 247: link in visited or link in to_visit
AlreadySeen(link, v, q) == link \in v \/ InSeq(link, q)

\* the link depth at which the URL was put on the frontier
DepthOf(url) ==
    depth_log[CHOOSE i \in 1..Len(enqueue_log) : enqueue_log[i] = url]

\* a link loop that puts new links at the front of the frontier
RECURSIVE QueueLinksAtFront(_, _, _)
QueueLinksAtFront(order, i, st) ==
    IF i > Len(order) THEN st
    ELSE LET link == order[i]
         IN  QueueLinksAtFront(order, i + 1,
                 IF ~is_same_domain(link, start_domain)
                 THEN [st EXCEPT !.external_count = @ + 1]
                 ELSE IF AlreadySeen(link, st.visited, st.to_visit)
                 THEN st
                 ELSE IF is_path_excluded(link, config.exclude_paths)
                 THEN [st EXCEPT !.visited = @ \cup {link}]
                 ELSE [st EXCEPT !.to_visit = <<link>> \o @,
                                 !.enqueue_log = Append(@, link),
                                 !.new_count = @ + 1])

\* a link loop without the exclusion test of line 249
RECURSIVE QueueLinksUnfiltered(_, _, _)
QueueLinksUnfiltered(order, i, st) ==
    IF i > Len(order) THEN st
    ELSE LET link == order[i]
         IN  QueueLinksUnfiltered(order, i + 1,
                 IF ~is_same_domain(link, start_domain)
                 THEN [st EXCEPT !.external_count = @ + 1]
                 ELSE IF AlreadySeen(link, st.visited, st.to_visit)
                 THEN st
                 ELSE [st EXCEPT !.to_visit = Append(@, link),
                                 !.enqueue_log = Append(@, link),
                                 !.new_count = @ + 1])

\* lines 243-253: the links of one page, in the order the set is iterated
RECURSIVE QueueLinks(_, _, _)
QueueLinks(order, i, st) ==
    IF i > Len(order) THEN st
    ELSE LET link == order[i]
         IN  QueueLinks(order, i + 1,
                 IF ~is_same_domain(link, start_domain)
                 THEN [st EXCEPT !.external_count = @ + 1]
                 ELSE IF AlreadySeen(link, st.visited, st.to_visit)
                 THEN st
                 ELSE IF is_path_excluded(link, config.exclude_paths)
                 THEN [st EXCEPT !.visited = @ \cup {link}]
                 ELSE [st EXCEPT !.to_visit = Append(@, link),
                                 !.enqueue_log = Append(@, link),
                                 !.new_count = @ + 1])

\* a page step that merges the page's business info whether or not a schema was found
ProcessedMergesAlways(url, page) ==
    LET is_priority == contains_priority_path(url, config.priority_paths)
        r1 == [results EXCEPT !.total_pages_crawled = @ + 1,
                              !.business_info = merge_business_info(@, page.info)]
    IN  IF is_priority
        THEN [r1 EXCEPT !.priority_pages_found = @ + 1,
                        !.priority_pages_with_schema = IF page.has_schema THEN @ + 1 ELSE @,
                        !.priority_schemas_found = IF page.has_schema THEN Append(@, url) ELSE @]
        ELSE [r1 EXCEPT !.remaining_pages_found = @ + 1,
                        !.remaining_pages_with_schema = IF page.has_schema THEN @ + 1 ELSE @,
                        !.remaining_schemas_found = IF page.has_schema THEN Append(@, url) ELSE @]

\* a page count that is not split by priority class
ProcessedNoSplit(url, page) ==
    LET r1 == [results EXCEPT !.total_pages_crawled = @ + 1]
    IN  IF page.has_schema
        THEN [r1 EXCEPT !.business_info = merge_business_info(@, page.info)]
        ELSE r1

\* lines 198-226: the counters, the URL lists and the profile after a fetched page
Processed(url, page) ==
    LET is_priority == contains_priority_path(url, config.priority_paths)
        r1 == [results EXCEPT !.total_pages_crawled = @ + 1]
        r2 == IF is_priority
              THEN [r1 EXCEPT !.priority_pages_found = @ + 1,
                              !.priority_pages_with_schema =
                                   IF page.has_schema THEN @ + 1 ELSE @,
                              !.priority_schemas_found =
                                   IF page.has_schema THEN Append(@, url) ELSE @]
              ELSE [r1 EXCEPT !.remaining_pages_found = @ + 1,
                              !.remaining_pages_with_schema =
                                   IF page.has_schema THEN @ + 1 ELSE @,
                              !.remaining_schemas_found =
                                   IF page.has_schema THEN Append(@, url) ELSE @]
    IN  IF page.has_schema
        THEN [r2 EXCEPT !.business_info = merge_business_info(@, page.info)]
        ELSE r2

Init ==
    /\ config \in Configs
    /\ max_pages \in 0..MaxPagesBound
    /\ visited = {}
    /\ to_visit = <<homepage_url>>
    /\ results = CrawlResults
    /\ info_complete = FALSE
    /\ pc = "loop"
    /\ links = {}
    /\ new_count = 0
    /\ external_count = 0
    /\ fetch_log = <<>>
    /\ enqueue_log = <<homepage_url>>
    /\ depth_log = <<0>>
    /\ merged = <<>>
    /\ saved = <<>>
    /\ status_code = <<>>
    /\ error = "None"
    /\ request_log = <<>>
    /\ returned = <<>>
    /\ RetryIdle
    /\ UtilIdle

\* line 165 false: the loop ends at the page ceiling
CeilingReached ==
    /\ pc = "loop"
    /\ ~LoopGuard
    /\ pc' = "ceiling"
    /\ UNCHANGED <<config, max_pages, visited, to_visit, results, info_complete, links,
                   new_count, external_count, fetch_log, enqueue_log, depth_log, merged,
                   saved>>
    /\ UNCHANGED <<status_code, error, request_log, returned, retryVars, utilVars>>

\* lines 167-173: the queue is empty at the loop head
QueueEmpty ==
    /\ pc = "loop"
    /\ LoopGuard
    /\ to_visit = <<>>
    /\ pc' = IF _is_business_info_complete(results.business_info)
             THEN "no_more_pages" ELSE "missing_info"
    /\ UNCHANGED <<config, max_pages, visited, to_visit, results, info_complete, links,
                   new_count, external_count, fetch_log, enqueue_log, depth_log, merged,
                   saved>>
    /\ UNCHANGED <<status_code, error, request_log, returned, retryVars, utilVars>>

\* lines 175-185: the dequeued URL is already visited, or is excluded
Skip ==
    /\ pc = "loop"
    /\ LoopGuard
    /\ to_visit # <<>>
    /\ LET url == Head(to_visit)
       IN  /\ url \in visited \/ is_path_excluded(url, config.exclude_paths)
           /\ visited' = IF url \in visited THEN visited ELSE MarkVisited(visited, url)
    /\ to_visit' = Tail(to_visit)
    /\ UNCHANGED <<config, max_pages, results, info_complete, pc, links, new_count,
                   external_count, fetch_log, enqueue_log, depth_log, merged,
                   saved>>
    /\ UNCHANGED <<status_code, error, request_log, returned, retryVars, utilVars>>

\* lines 175-196: the fetch of the dequeued URL fails
FetchError ==
    /\ pc = "loop"
    /\ LoopGuard
    /\ to_visit # <<>>
    /\ LET url == Head(to_visit)
       IN  /\ url \notin visited
           /\ ~is_path_excluded(url, config.exclude_paths)
           /\ visited' = MarkVisited(visited, url)
           /\ fetch_log' = Append(fetch_log, url)
           /\ request_log' = request_log \o Requests(url)
           /\ \E answer \in ServerAnswers : \E r \in {_fetch_page(answer)} :
                /\ r.error # "None"
                /\ status_code' = r.status_code
                /\ error' = r.error
    /\ to_visit' = Tail(to_visit)
    /\ UNCHANGED <<links, new_count, external_count>>
    /\ UNCHANGED <<config, max_pages, results, info_complete, pc, enqueue_log, depth_log, merged,
                   saved>>
    /\ UNCHANGED <<returned, retryVars, utilVars>>

\* lines 175-233: the page is fetched, the profile is complete and nothing is
\* queued: the crawl stops before the links are read
CrawlComplete ==
    /\ pc = "loop"
    /\ LoopGuard
    /\ to_visit # <<>>
    /\ LET url == Head(to_visit)
       IN  /\ url \notin visited
           /\ ~is_path_excluded(url, config.exclude_paths)
           /\ \E page \in Pages : \E r \in {Processed(url, page)} :
                /\ StopsCrawl(r.business_info, Tail(to_visit))
                /\ results' = r
                /\ info_complete' = _is_business_info_complete(r.business_info)
                /\ merged' = IF page.has_schema THEN Append(merged, page.info) ELSE merged
                /\ saved' = IF page.has_schema THEN Append(saved, url) ELSE saved
           /\ visited' = MarkVisited(visited, url)
           /\ fetch_log' = Append(fetch_log, url)
           /\ request_log' = request_log \o Requests(url)
           /\ \E answer \in ServerAnswers : \E r \in {_fetch_page(answer)} :
                /\ r.error = "None"
                /\ status_code' = r.status_code
                /\ error' = r.error
    /\ to_visit' = Tail(to_visit)
    /\ pc' = "crawl_complete"
    /\ UNCHANGED <<config, max_pages, links, new_count, external_count, enqueue_log, depth_log>>
    /\ UNCHANGED <<returned, retryVars, utilVars>>

\* lines 175-256: the page is fetched and its links are queued
PageCrawled ==
    /\ pc = "loop"
    /\ LoopGuard
    /\ to_visit # <<>>
    /\ LET url == Head(to_visit)
       IN  /\ url \notin visited
           /\ ~is_path_excluded(url, config.exclude_paths)
           /\ \E page \in Pages : \E r \in {Processed(url, page)} :
                /\ ~StopsCrawl(r.business_info, Tail(to_visit))
                /\ results' = r
                /\ info_complete' = _is_business_info_complete(r.business_info)
                /\ merged' = IF page.has_schema THEN Append(merged, page.info) ELSE merged
                /\ saved' = IF page.has_schema THEN Append(saved, url) ELSE saved
           /\ fetch_log' = Append(fetch_log, url)
           /\ request_log' = request_log \o Requests(url)
           /\ \E answer \in ServerAnswers : \E r \in {_fetch_page(answer)} :
                /\ r.error = "None"
                /\ status_code' = r.status_code
                /\ error' = r.error
           /\ \E found \in LinkSets(url) : \E order \in Orderings(found) :
                LET st == QueueLinks(order, 1,
                             [visited |-> MarkVisited(visited, url),
                              to_visit |-> Tail(to_visit),
                              enqueue_log |-> enqueue_log,
                              new_count |-> 0, external_count |-> 0])
                IN  /\ links' = found
                    /\ new_count' = st.new_count
                    /\ external_count' = st.external_count
                    /\ visited' = st.visited
                    /\ to_visit' = st.to_visit
                    /\ enqueue_log' = st.enqueue_log
                    /\ depth_log' = depth_log \o
                           [k \in 1..(Len(st.enqueue_log) - Len(enqueue_log)) |->
                               DepthOf(url) + 1]
    /\ UNCHANGED <<config, max_pages, pc>>
    /\ UNCHANGED <<returned, retryVars, utilVars>>

Next == CeilingReached \/ QueueEmpty \/ Skip \/ FetchError \/ CrawlComplete \/ PageCrawled

Spec == Init /\ [][Next]_vars

\* the loop is a single thread that runs until it leaves the loop
FairSpec == Spec /\ WF_vars(Next)


(***************************************************************************)
(* The merge-and-evaluate step on its own (crawler.py lines 224-229, and   *)
(* the loop of scrape_business, lines 138-140): page-infos of a wider set  *)
(* are merged one after the other into the empty profile.                  *)
(***************************************************************************)
\* a page-info whose string fields all hold s, list fields l, flags b, numbers n
UniformInfo(s, l, b, n, social, founders) ==
    [k \in DOMAIN EmptyPageInfo |->
        IF InSeq(k, StringKeys) THEN s
        ELSE IF InSeq(k, ListKeys) THEN l
        ELSE IF InSeq(k, BoolKeys) THEN b
        ELSE IF InSeq(k, NumberKeys) THEN n
        ELSE IF k = "social_media" THEN social
        ELSE founders]

\* page-info `info` with field k as in the empty page-info
Without(info, k) == [info EXCEPT ![k] = EmptyPageInfo[k]]

InfoA == UniformInfo("x", <<"p", "q">>, FALSE, <<Num(4)>>,
                     [facebook |-> "fb.com/acme"],
                     <<[name |-> "Ann", jobTitle |-> "CEO"]>>)

InfoB == UniformInfo("y", <<"q", "", "r", "r">>, TRUE, <<Num(5)>>,
                     [facebook |-> "fb.com/acme2", twitter |-> "x.com/acme"],
                     <<[name |-> "Ann", jobTitle |-> "CTO"], [name |-> "", jobTitle |-> "COO"],
                       [name |-> "Bob", jobTitle |-> ""]>>)

InfoC == [UniformInfo("", <<"r">>, FALSE, <<Num(3)>>, <<>>, <<>>)
             EXCEPT !.review_count = <<>>, !.has_coupon = TRUE, !.website = "z"]

\* a page whose aggregateRating carries "NaN"
InfoN == [InfoC EXCEPT !.rating = <<NaN>>]

\* the five fields _is_business_info_complete reads
RequiredKeys == {"business_name", "phones", "addresses", "services", "hours"}

MergePageInfos ==
    {EmptyPageInfo, InfoA, InfoB, InfoC, InfoN, AboutInfo, ContactInfo, FullInfo}
        \cup {Without(InfoA, k) : k \in RequiredKeys}

InitMerge ==
    /\ config = [exclude_paths |-> <<>>, priority_paths |-> <<>>]
    /\ max_pages = 0
    /\ visited = {}
    /\ to_visit = <<>>
    /\ results = CrawlResults
    /\ info_complete = FALSE
    /\ pc = "merge"
    /\ links = {}
    /\ new_count = 0
    /\ external_count = 0
    /\ fetch_log = <<>>
    /\ enqueue_log = <<>>
    /\ depth_log = <<>>
    /\ merged = <<>>
    /\ saved = <<>>
    /\ status_code = <<>>
    /\ error = "None"
    /\ request_log = <<>>
    /\ returned = <<>>
    /\ RetryIdle
    /\ UtilIdle

\* one page-info is merged and completeness is evaluated
MergePage ==
    /\ pc = "merge"
    /\ Len(merged) < MaxMerges
    /\ \E page_info \in MergePageInfos :
         /\ results' = [results EXCEPT
                           !.business_info = merge_business_info(@, page_info)]
         /\ merged' = Append(merged, page_info)
    /\ info_complete' = _is_business_info_complete(results'.business_info)
    /\ UNCHANGED <<config, max_pages, visited, to_visit, pc, links, new_count, external_count,
                   fetch_log, enqueue_log, depth_log, saved>>
    /\ UNCHANGED <<status_code, error, request_log, returned, retryVars, utilVars>>

NextMerge == MergePage

SpecMerge == InitMerge /\ [][NextMerge]_vars



(***************************************************************************)
(* error_handler.retry_with_backoff: one call of a wrapped function.       *)
(***************************************************************************)
\* line 40: the exception types the wrapper retries on
retryable_exceptions == {"RequestException"}

\* what one invocation of the wrapped function can do: return a
\* (response, status_code, error) tuple, return another value, or raise
FuncResults ==
    [kind : {"tuple"}, error : {"None", "RequestException", "ValueError"},
     status : {<<200>>, <<503>>, <<>>}]
        \cup {[kind |-> "value", error |-> "None", status |-> <<>>]}
        \cup [kind : {"raise"}, error : {"RequestException", "ValueError"}, status : {<<>>}]

\* line 80: status_code in retryable_status_codes
RetryableStatus(status) ==
    status # <<>> /\ status[1] \in DEFAULT_RETRYABLE_STATUS_CODES

\* a wrapper that allows itself one attempt more
DecideOneMore(res, k, n) ==
    IF res.kind = "raise"
    THEN IF res.error \in retryable_exceptions /\ k <= n THEN "retry" ELSE "raise"
    ELSE IF res.kind = "tuple"
              /\ \/ res.error \in retryable_exceptions /\ k <= n
                 \/ RetryableStatus(res.status) /\ k <= n
    THEN "retry"
    ELSE "return"

\* lines 61-108: what the wrapper does with the result of attempt k of 0..n
Decide(res, k, n) ==
    IF res.kind = "raise"
    THEN IF res.error \in retryable_exceptions /\ k < n THEN "retry" ELSE "raise"
    ELSE IF res.kind = "tuple"
              /\ \/ res.error # "None" /\ k < n /\ res.error \in retryable_exceptions
                 \/ RetryableStatus(res.status) /\ k < n
    THEN "retry"
    ELSE "return"

\* lines 71, 81, 94: wait_time
WaitTime(factor, k) == factor * (2 ^ k)

\* the wrapper is called
InitRetry ==
    /\ config = [exclude_paths |-> <<>>, priority_paths |-> <<>>]
    /\ max_pages = 0
    /\ visited = {}
    /\ to_visit = <<>>
    /\ results = CrawlResults
    /\ info_complete = FALSE
    /\ pc = "retry"
    /\ links = {}
    /\ new_count = 0
    /\ external_count = 0
    /\ fetch_log = <<>>
    /\ enqueue_log = <<>>
    /\ depth_log = <<>>
    /\ merged = <<>>
    /\ saved = <<>>
    /\ status_code = <<>>
    /\ error = "None"
    /\ request_log = <<>>
    /\ returned = <<>>
    /\ max_retries \in -1..MaxRetriesBound
    /\ backoff_factor \in 1..MaxBackoffFactor
    /\ attempt = 0
    /\ calls = 0
    /\ waits = <<>>
    /\ last_result = <<>>
    /\ outcome = <<>>
    /\ UtilIdle

\* the loop of line 60 has an attempt left and nothing was delivered
Attempting == pc = "retry" /\ outcome = <<>> /\ attempt <= max_retries

\* lines 62-77, 80-87, 91-99: the attempt fails, the wrapper sleeps and goes on
AttemptRetried ==
    /\ Attempting
    /\ \E res \in FuncResults :
         /\ Decide(res, attempt, max_retries) = "retry"
         /\ last_result' = <<res>>
    /\ calls' = calls + 1
    /\ waits' = Append(waits, WaitTime(backoff_factor, attempt))
    /\ attempt' = attempt + 1
    /\ UNCHANGED <<crawlVars, utilVars, max_retries, backoff_factor, outcome>>

\* line 89: the wrapper returns the result of the attempt
AttemptReturned ==
    /\ Attempting
    /\ \E res \in FuncResults :
         /\ Decide(res, attempt, max_retries) = "return"
         /\ last_result' = <<res>>
         /\ outcome' = Append(outcome, [kind |-> "return", value |-> res])
    /\ calls' = calls + 1
    /\ UNCHANGED <<crawlVars, utilVars, max_retries, backoff_factor, attempt, waits>>

\* lines 100-108: the wrapper lets the exception of the attempt through
AttemptRaised ==
    /\ Attempting
    /\ \E res \in FuncResults :
         /\ Decide(res, attempt, max_retries) = "raise"
         /\ last_result' = <<res>>
         /\ outcome' = Append(outcome, [kind |-> "raise", value |-> res])
    /\ calls' = calls + 1
    /\ UNCHANGED <<crawlVars, utilVars, max_retries, backoff_factor, attempt, waits>>

\* lines 110-113: the loop ends without a return
Exhausted ==
    /\ pc = "retry"
    /\ outcome = <<>>
    /\ attempt > max_retries
    /\ outcome' = Append(outcome,
                     [kind |-> "raise",
                      value |-> IF last_result # <<>> /\ last_result[1].kind = "raise"
                                THEN last_result[1]
                                ELSE [kind |-> "raise", error |-> "ScraperError",
                                      status |-> <<>>]])
    /\ UNCHANGED <<crawlVars, utilVars, max_retries, backoff_factor, attempt, calls, waits,
                   last_result>>

NextRetry == AttemptRetried \/ AttemptReturned \/ AttemptRaised \/ Exhausted

SpecRetry == InitRetry /\ [][NextRetry]_vars

\* the wrapped function returns or raises, and the wrapper runs on
FairSpecRetry == SpecRetry /\ WF_vars(NextRetry)


(***************************************************************************)
(* config.load_config                                                      *)
(***************************************************************************)
\* s.lstrip(c)
RECURSIVE LStrip(_, _)
LStrip(s, c) == IF Len(s) > 0 /\ s[1] = c THEN LStrip(Tail(s), c) ELSE s

\* JSON values: a string is the sequence of its characters
JString(text) == [type |-> "string", text |-> text, items |-> <<>>, members |-> <<>>]
JNumber == [type |-> "number", text |-> <<>>, items |-> <<>>, members |-> <<>>]
JNull == [type |-> "null", text |-> <<>>, items |-> <<>>, members |-> <<>>]
JArray(items) == [type |-> "array", text |-> <<>>, items |-> items, members |-> <<>>]
\* an object: members maps its keys to values
JObject(members) == [type |-> "object", text |-> <<>>, items |-> <<>>, members |-> members]

\* config.py lines 24-31: <<>> for None, else <<path>>
_normalize_path(v) ==
    IF v.type # "string" THEN <<>>
    ELSE LET path == RStrip(LStrip(v.text, " "), " ")
         IN  IF path = <<>> THEN <<>>
             ELSE IF StartsWith(path, <<"/">>) THEN <<path>>
             ELSE <<(<<"/">> \o path)>>

\* what map(_normalize_path, v) iterates over; a string yields its
\* characters; a number and null are not iterable
Iterable(v) == v.type \in {"array", "string"}

Elements(v) ==
    IF v.type = "array" THEN v.items
    ELSE [i \in 1..Len(v.text) |-> JString(<<v.text[i]>>)]

\* lines 42-43: [p for p in map(_normalize_path, v) if p]
RECURSIVE NormalizedPaths(_, _)
NormalizedPaths(elems, i) ==
    IF i > Len(elems) THEN <<>>
    ELSE _normalize_path(elems[i]) \o NormalizedPaths(elems, i + 1)

\* data.get(key, [])
Member(data, key) ==
    IF key \in DOMAIN data.members THEN data.members[key] ELSE JArray(<<>>)

\* lines 34-46: the ScraperConfig returned, or the exception raised
load_config(file) ==
    IF file.state \in {"missing", "not_json"}
    THEN [raised |-> "None", exclude_paths |-> <<>>, priority_paths |-> <<>>]
    ELSE IF file.data.type # "object"
    THEN [raised |-> "AttributeError", exclude_paths |-> <<>>, priority_paths |-> <<>>]
    ELSE IF \E key \in {"exclude_paths", "priority_paths"} : ~Iterable(Member(file.data, key))
    THEN [raised |-> "TypeError", exclude_paths |-> <<>>, priority_paths |-> <<>>]
    ELSE [raised |-> "None",
          exclude_paths |-> NormalizedPaths(Elements(Member(file.data, "exclude_paths")), 1),
          priority_paths |-> NormalizedPaths(Elements(Member(file.data, "priority_paths")), 1)]

\* the values a pattern list can have in the file
JPathLists ==
    { JArray(<<>>),
      JArray(<<JString(<<"/", "a">>), JString(<<"b", "/">>)>>),
      JArray(<<JString(<<" ", "/", "a", " ">>), JNumber, JString(<<" ">>)>>),
      JString(<<"a", "b">>),
      JNumber,
      JNull }

\* the configuration files of the model
ConfigFiles ==
    {[state |-> "missing", data |-> JNull], [state |-> "not_json", data |-> JNull]}
        \cup {[state |-> "json", data |-> d] : d \in {JArray(<<>>), JString(<<"a">>), JNumber, JNull}}
        \cup {[state |-> "json", data |-> JObject(<<>>)]}
        \cup {[state |-> "json", data |-> JObject([exclude_paths |-> x])] : x \in JPathLists}
        \cup {[state |-> "json", data |-> JObject([exclude_paths |-> x, priority_paths |-> y])] :
                 x \in JPathLists, y \in JPathLists}



(***************************************************************************)
(* schema_extractor._extract_from_html.  A page is the record of what the  *)
(* queries of the function find in it; info holds the keys the function    *)
(* reads or writes.                                                        *)
(***************************************************************************)
\* list[:n]
Limit(seq, n) == IF Len(seq) <= n THEN seq ELSE SubSeq(seq, 1, n)

\* lines 626-628: the keywords of the emergency check that contain "24"
HoursKeywords == {"24/7", "24 hour", "available 24", "24 hours"}

\* lines 557-664
_extract_from_html(html, info) ==
    LET phones == IF info.phones = <<>> THEN Limit(html.phones, 10) ELSE info.phones
        emails == IF info.emails = <<>> THEN Limit(html.emails, 5) ELSE info.emails
        business_name == IF info.business_name = "" /\ html.title # ""
                         THEN html.title ELSE info.business_name
        newLogo == info.logo = "" /\ html.logo # ""
        logo == IF newLogo THEN html.logo ELSE info.logo
        images == IF newLogo /\ ~InSeq(html.logo, info.images)
                  THEN Append(info.images, html.logo) ELSE info.images
        quote_url == IF info.quote_url # "" THEN info.quote_url
                     ELSE IF html.quote_link # "" THEN html.quote_link
                     ELSE html.contact_link
        social_media == info.social_media @@ html.social
        has_coupon == info.has_coupon \/ html.coupon
        emergency == ~info.has_emergency /\ html.emergency_keyword # ""
        has_emergency == info.has_emergency \/ emergency
        hours == IF emergency /\ html.emergency_keyword \in HoursKeywords /\ info.hours = ""
                 THEN "24/7" ELSE info.hours
        licensed == ~info.is_licensed /\ html.license_keyword
        license_number == IF licensed /\ html.license_match # ""
                          THEN html.license_match ELSE info.license_number
        addresses == MergeItems(info.addresses, html.address_tags, 1)
    IN  [phones |-> phones, emails |-> emails, business_name |-> business_name,
         logo |-> logo, images |-> images, quote_url |-> quote_url,
         social_media |-> social_media, has_coupon |-> has_coupon,
         has_emergency |-> has_emergency, hours |-> hours,
         is_licensed |-> info.is_licensed \/ licensed,
         license_number |-> license_number, addresses |-> addresses]

\* info as lines 100-138 create it
InitialInfo ==
    [phones |-> <<>>, emails |-> <<>>, business_name |-> "", logo |-> "", images |-> <<>>,
     quote_url |-> "", social_media |-> <<>>, has_coupon |-> FALSE, has_emergency |-> FALSE,
     hours |-> "", is_licensed |-> FALSE, license_number |-> "", addresses |-> <<>>]

\* info after _extract_from_schemas: nothing found, name and address found,
\* every field found
SchemaInfos ==
    { InitialInfo,
      [InitialInfo EXCEPT !.business_name = "Acme", !.addresses = <<"1 Main St, Springfield">>],
      [InitialInfo EXCEPT !.phones = <<"+15551234567">>, !.emails = <<"info@acme.com">>,
                          !.business_name = "Acme", !.logo = "https://a.com/logo.png",
                          !.images = <<"https://a.com/logo.png">>,
                          !.quote_url = "https://a.com/quote", !.hours = "Mo-Fr 09:00-17:00",
                          !.addresses = <<"1 Main St, Springfield">>,
                          !.social_media = [facebook |-> "https://facebook.com/acme"]] }

\* a page with nothing to find
PlainHtml ==
    [phones |-> <<>>, emails |-> <<>>, title |-> "", logo |-> "", quote_link |-> "",
     contact_link |-> "", social |-> <<>>, coupon |-> FALSE, emergency_keyword |-> "",
     license_keyword |-> FALSE, license_match |-> "", address_tags |-> <<>>]

\* the pages of the model
Htmls ==
    { PlainHtml,
      [PlainHtml EXCEPT !.phones = <<"5559876543">>, !.emails = <<"sales@acme.com">>,
                        !.title = "Acme Plumbing", !.logo = "https://a.com/img/l.png",
                        !.quote_link = "https://a.com/get-quote",
                        !.contact_link = "https://a.com/contact",
                        !.social = [facebook |-> "https://fb.com/other",
                                    twitter |-> "https://x.com/acme"],
                        !.coupon = TRUE, !.emergency_keyword = "24/7",
                        !.license_keyword = TRUE, !.license_match = "C-10",
                        !.address_tags = <<"1 Main St, Springfield", "12 Long Street, Shelbyville">>],
      [PlainHtml EXCEPT !.contact_link = "https://a.com/contact",
                        !.emergency_keyword = "emergency",
                        !.address_tags = <<"12 Long Street, Shelbyville">>],
      [PlainHtml EXCEPT !.title = "Acme", !.license_keyword = TRUE] }

(***************************************************************************)
(* One call of normalize_url, is_path_excluded, contains_priority_path,     *)
(* is_same_domain or load_config, on arguments of a wider set than the     *)
(* crawl's site uses.                                                      *)
(***************************************************************************)
\* the base URLs of the calls of normalize_url
BaseUrls ==
    { Url("https", "a.com", <<>>),                  \* "https://a.com"
      Url("https", "a.com", <<"/">>),               \* "https://a.com/"
      Url("https", "a.com", <<"/", "a">>),          \* "https://a.com/a"
      Url("http", "a.com", <<"/", "a", "/">>) }     \* "http://a.com/a/"

\* the references of the calls of normalize_url
References ==
    Hrefs \cup
    { Href("", "", <<>>, ""),                       \* ""
      Href("", "", <<"/">>, ""),                    \* "/"
      Href("", "", <<"/", "x", "/">>, ""),          \* "/x/"
      Href("", "", <<"/", "x", "/", "/">>, ""),     \* "/x//"
      Href("", "", <<"/", "x", "/">>, "f"),         \* "/x/#f"
      Href("", "", <<"x", "/">>, ""),               \* "x/"
      Href("HTTP", "A.COM", <<"/", "a">>, ""),      \* "HTTP://A.COM/a"
      Href("https", "A.COM", <<"/", "a", "/">>, "f") }   \* "https://A.COM/a/#f"

\* the URL paths and the patterns of the calls of the two matchers
MatchPaths ==
    { <<>>, <<"/">>, <<"/", "a">>, <<"/", "a", "/">>, <<"/", "a", "/", "b">>,
      <<"/", "a", "b">>, <<"/", "b">>, <<"/", "/", "a">>, <<"/", "a", "/", "/">> }

MatchPatterns ==
    { <<"/">>, <<"/", "a">>, <<"/", "a", "/">>, <<"/", "a", "b">>, <<"/", "b">>,
      <<"/", "/">>, <<"/", "a", "/", "b">> }

\* the pattern lists: one pattern, or "/" and one pattern
PatternLists ==
    {<<q>> : q \in MatchPatterns} \cup {<<<<"/">>, q>> : q \in MatchPatterns}

\* the calls of the model
UtilCalls ==
    {[fn |-> "normalize_url", args |-> <<base, ref>>] : base \in BaseUrls, ref \in References}
        \cup {[fn |-> f, args |-> <<Url("https", "a.com", p), l>>] :
                 f \in {"is_path_excluded", "contains_priority_path"},
                 p \in MatchPaths, l \in PatternLists}
        \cup {[fn |-> "is_same_domain", args |-> <<Url("https", h, <<"/", "a">>), d>>] :
                 h \in {"a.com", "A.COM", "www.a.com", ""}, d \in {"a.com", "A.COM", ""}}
        \cup {[fn |-> "load_config", args |-> <<file>>] : file \in ConfigFiles}
        \cup {[fn |-> "_extract_from_html", args |-> <<html, info>>] :
                 html \in Htmls, info \in SchemaInfos}

\* a function is called
InitUtil ==
    /\ config = [exclude_paths |-> <<>>, priority_paths |-> <<>>]
    /\ max_pages = 0
    /\ visited = {}
    /\ to_visit = <<>>
    /\ results = CrawlResults
    /\ info_complete = FALSE
    /\ pc = "util"
    /\ links = {}
    /\ new_count = 0
    /\ external_count = 0
    /\ fetch_log = <<>>
    /\ enqueue_log = <<>>
    /\ depth_log = <<>>
    /\ merged = <<>>
    /\ saved = <<>>
    /\ status_code = <<>>
    /\ error = "None"
    /\ request_log = <<>>
    /\ returned = <<>>
    /\ RetryIdle
    /\ util_in \in UtilCalls
    /\ util_out = <<>>

\* the call of function fn is pending
Pending(fn) == pc = "util" /\ util_in.fn = fn /\ util_out = <<>>

NormalizeUrl ==
    /\ Pending("normalize_url")
    /\ util_out' = <<normalize_url(util_in.args[1], util_in.args[2])>>
    /\ UNCHANGED <<crawlVars, retryVars, util_in>>

IsPathExcluded ==
    /\ Pending("is_path_excluded")
    /\ util_out' = <<is_path_excluded(util_in.args[1], util_in.args[2])>>
    /\ UNCHANGED <<crawlVars, retryVars, util_in>>

ContainsPriorityPath ==
    /\ Pending("contains_priority_path")
    /\ util_out' = <<contains_priority_path(util_in.args[1], util_in.args[2])>>
    /\ UNCHANGED <<crawlVars, retryVars, util_in>>

IsSameDomain ==
    /\ Pending("is_same_domain")
    /\ util_out' = <<is_same_domain(util_in.args[1], util_in.args[2])>>
    /\ UNCHANGED <<crawlVars, retryVars, util_in>>

ExtractFromHtml ==
    /\ Pending("_extract_from_html")
    /\ util_out' = <<_extract_from_html(util_in.args[1], util_in.args[2])>>
    /\ UNCHANGED <<crawlVars, retryVars, util_in>>

LoadConfig ==
    /\ Pending("load_config")
    /\ util_out' = <<load_config(util_in.args[1])>>
    /\ UNCHANGED <<crawlVars, retryVars, util_in>>

NextUtil ==
    NormalizeUrl \/ IsPathExcluded \/ ContainsPriorityPath \/ IsSameDomain \/ LoadConfig
        \/ ExtractFromHtml

SpecUtil == InitUtil /\ [][NextUtil]_vars


(***************************************************************************)
(* The crawl as main.py runs it, with a KeyboardInterrupt that can arrive  *)
(* while the loop runs.                                                    *)
(***************************************************************************)
\* crawler.py lines 165-256: KeyboardInterrupt is raised inside the loop; no
\* handler of scrape_priority_paths catches it (line 67 catches
\* requests.RequestException only), so the call is left without a return value
Interrupt ==
    /\ pc = "loop"
    /\ pc' = "interrupted"
    /\ UNCHANGED <<config, max_pages, visited, to_visit, results, info_complete, links,
                   new_count, external_count, fetch_log, enqueue_log, depth_log, merged,
                   saved>>
    /\ UNCHANGED <<status_code, error, request_log, returned, retryVars, utilVars>>

\* main.py lines 96-98: the handler of main reports the cancellation and ends
Cancelled ==
    /\ pc = "interrupted"
    /\ pc' = "cancelled"
    /\ UNCHANGED <<config, max_pages, visited, to_visit, results, info_complete, links,
                   new_count, external_count, fetch_log, enqueue_log, depth_log, merged,
                   saved>>
    /\ UNCHANGED <<status_code, error, request_log, returned, retryVars, utilVars>>

\* crawler.py line 261 and main.py line 82: the loop has ended and the results
\* are returned to main
Return ==
    /\ pc \in {"ceiling", "no_more_pages", "missing_info", "crawl_complete"}
    /\ returned = <<>>
    /\ returned' = <<results>>
    /\ UNCHANGED <<config, max_pages, visited, to_visit, results, info_complete, pc, links,
                   new_count, external_count, fetch_log, enqueue_log, depth_log, merged,
                   saved>>
    /\ UNCHANGED <<status_code, error, request_log, retryVars, utilVars>>

NextInterrupt == Next \/ Interrupt \/ Cancelled \/ Return

SpecInterrupt == Init /\ [][NextInterrupt]_vars

(***************************************************************************)
(* Properties of the crawl loop.                                           *)
(***************************************************************************)
Done == pc # "loop"

NoDuplicates(s) == \A i, j \in 1..Len(s) : s[i] = s[j] => i = j

Count(x, s) == Cardinality({i \in 1..Len(s) : s[i] = x})

Complete == _is_business_info_complete(results.business_info)

\* the first non-empty value of string field k among the merged page-infos
RECURSIVE FirstNonEmpty(_, _, _)
FirstNonEmpty(infos, k, i) ==
    IF i > Len(infos) THEN ""
    ELSE IF infos[i][k] # "" THEN infos[i][k]
    ELSE FirstNonEmpty(infos, k, i + 1)

\* C1: in any run of the crawl, whatever the site returns and whichever
\* fetches fail, no URL is passed to the fetcher more than once.
C1_NoUrlFetchedTwice == NoDuplicates(fetch_log)

\* a fetch has failed, three URLs were fetched, and the last page links to a
\* URL that was fetched before
C1_Witness ==
    /\ Len(fetch_log) >= 3
    /\ Len(fetch_log) > results.total_pages_crawled
    /\ \E u \in links : InSeq(u, fetch_log)

\* C2: every URL is put on the frontier at most once in a crawl, and a step
\* never appends a URL that is in visited or in the frontier.
C2_EnqueuedAtMostOnce ==
    /\ [](NoDuplicates(enqueue_log))
    /\ [][\A u \in Range(enqueue_log') :
             (u \in visited \/ InSeq(u, to_visit))
                 => Count(u, enqueue_log') = Count(u, enqueue_log)]_vars

\* the last page queued nothing: it links to a URL that an earlier page had
\* put on the frontier, where it still waits, and to a URL that is visited
C2_Witness ==
    /\ new_count = 0
    /\ \E u \in links : InSeq(u, to_visit)
    /\ \E u \in links : u \in visited

\* C4: completeness never stops a crawl whose frontier is not empty: the loop
\* is left with a non-empty frontier only at the page ceiling; a complete
\* profile with URLs queued leads to an empty frontier or to the ceiling; and
\* a URL leaves the frontier only by being dequeued and fetched (or skipped
\* as excluded).
C4_CompleteKeepsDraining ==
    /\ [](Done => (to_visit = <<>> \/ results.total_pages_crawled = max_pages))
    /\ (pc = "loop" /\ Complete /\ to_visit # <<>>)
          ~> (to_visit = <<>> \/ results.total_pages_crawled = max_pages)
    /\ [][\A u \in Range(to_visit) \ Range(to_visit') :
             /\ u = Head(to_visit)
             /\ u \in visited'
             /\ InSeq(u, fetch_log') \/ is_path_excluded(u, config.exclude_paths)]_vars

\* the first merged page completed the profile while another URL was queued;
\* that URL was fetched and merged too, and the crawl ended below the ceiling
C4_Witness ==
    /\ Done
    /\ results.total_pages_crawled < max_pages
    /\ Len(merged) >= 2
    /\ _is_business_info_complete(merged[1])

\* no merged page-info carries a service
NoServices == \A i \in 1..Len(merged) : merged[i].services = <<>>

\* the profile holds the name, the addresses and the phones of the merged pages
HoldsMergedData ==
    /\ results.business_info.business_name = FirstNonEmpty(merged, "business_name", 1)
    /\ \A i \in 1..Len(merged) :
          /\ Range(merged[i].addresses) \subseteq Range(results.business_info.addresses)
          /\ Range(merged[i].phones) \subseteq Range(results.business_info.phones)

\* C5 as stated: on a site that never yields services the crawl ends only on
\* the "queue empty but missing info" branch, with every queued URL dequeued
\* and the merged name, address and phone in the profile.
C5_AsStated ==
    (Done /\ NoServices)
        => /\ pc = "missing_info"
           /\ to_visit = <<>>
           /\ Range(enqueue_log) \subseteq visited
           /\ HoldsMergedData

\* C5 (amended): on a site that never yields services the crawl never takes
\* an early-stop branch; if it ends below the page ceiling it ends on the
\* "queue empty but missing info" branch with every queued URL dequeued; and
\* the profile holds the merged name, addresses and phones.
C5_NoServicesNoEarlyStop ==
    NoServices
        => /\ pc \notin {"crawl_complete", "no_more_pages"}
           /\ (Done /\ results.total_pages_crawled < max_pages)
                 => /\ pc = "missing_info"
                    /\ to_visit = <<>>
                    /\ Range(enqueue_log) \subseteq visited
           /\ HoldsMergedData

\* the three-page site: "/" without schema, a page with name and address, a
\* page with phones and hours; the crawl ended with the queue empty
C5_Witness ==
    /\ pc = "missing_info"
    /\ results.total_pages_crawled = 3
    /\ merged = <<AboutInfo, ContactInfo>>
    /\ ~InSeq(homepage_url, results.priority_schemas_found \o results.remaining_schemas_found)
    /\ results.business_info.business_name = "Acme"

\* the three situations in which the loop can end
EndsComplete == Complete /\ to_visit = <<>>
EndsPartial == to_visit = <<>> /\ ~Complete
EndsAtCeiling == results.total_pages_crawled = max_pages

\* C6 as stated: when the loop has ended, exactly one of the three situations
\* holds.
C6_AsStated ==
    Done => /\ EndsComplete \/ EndsPartial \/ EndsAtCeiling
            /\ ~(EndsComplete /\ EndsAtCeiling)
            /\ ~(EndsPartial /\ EndsAtCeiling)

\* C6 (amended): the loop terminates, and when it has ended at least one of
\* the three situations holds, the one that belongs to the exit taken.
C6_Terminates ==
    /\ <>Done
    /\ [](Done => /\ EndsComplete \/ EndsPartial \/ EndsAtCeiling
                  /\ pc \in {"crawl_complete", "no_more_pages"} => EndsComplete
                  /\ pc = "missing_info" => EndsPartial
                  /\ pc = "ceiling" => EndsAtCeiling)

\* the loop ended at the ceiling with pages still queued
C6_Witness == pc = "ceiling" /\ to_visit # <<>> /\ ~Complete

\* C7: total_pages_crawled never exceeds max_pages, and at the ceiling no URL
\* is dequeued or fetched.
C7_CeilingRespected ==
    /\ [](results.total_pages_crawled <= max_pages)
    /\ [][results.total_pages_crawled = max_pages
             => (to_visit' = to_visit /\ fetch_log' = fetch_log)]_vars

\* the loop has ended at the ceiling with URLs still queued
C7_Witness ==
    /\ pc = "ceiling"
    /\ results.total_pages_crawled = max_pages
    /\ Len(to_visit) >= 2

(***************************************************************************)
(* Properties of the merger and of the completeness test.                  *)
(***************************************************************************)
\* C3: the completeness verdict is true exactly when business_name, phones,
\* addresses, services and hours are all non-empty, whatever else the profile
\* holds.
C3_CompleteIffAllFive ==
    info_complete <=> /\ results.business_info.business_name # ""
                      /\ results.business_info.phones # <<>>
                      /\ results.business_info.addresses # <<>>
                      /\ results.business_info.services # <<>>
                      /\ results.business_info.hours # ""

\* a rich profile that lacks only the hours is found incomplete
C3_Witness ==
    /\ merged # <<>>
    /\ ~info_complete
    /\ results.business_info.hours = ""
    /\ results.business_info.business_name # ""
    /\ results.business_info.phones # <<>>
    /\ results.business_info.addresses # <<>>
    /\ results.business_info.services # <<>>
    /\ results.business_info.rating # <<>>
    /\ Get(results.business_info, "emails", <<>>) # <<>>

\* C8: merging the page-info that was merged last once more leaves the
\* profile as it is.
C8_MergeIdempotent ==
    [][(pc = "merge" /\ merged # <<>> /\ merged' = Append(merged, merged[Len(merged)]))
          => results'.business_info = results.business_info]_vars

\* a page-info with lists, strings, founders and numbers was merged twice in a row
C8_Witness ==
    /\ Len(merged) >= 2
    /\ merged[Len(merged)] = InfoB
    /\ merged[Len(merged) - 1] = InfoB

\* the profile after the two merged page-infos are merged in the other order
Reversed ==
    merge_business_info(merge_business_info(_init_business_info, merged[2]), merged[1])

\* C9 as stated: merging A then B gives the same list values, flags and
\* numbers as merging B then A.
C9_AsStated ==
    (pc = "merge" /\ Len(merged) = 2)
        => /\ \A k \in Range(ListKeys) :
                Get(results.business_info, k, <<>>) = Get(Reversed, k, <<>>)
           /\ \A k \in Range(BoolKeys) : results.business_info[k] = Reversed[k]
           /\ \A k \in Range(NumberKeys) : results.business_info[k] = Reversed[k]

\* C9 (amended): merging A then B gives the same items in every list field
\* (in first-seen order, which may differ), the same flags, and the same
\* rating and review_count unless one of the two values is NaN, as merging B
\* then A.
C9_CommutativeUpToOrder ==
    (pc = "merge" /\ Len(merged) = 2)
        => /\ \A k \in Range(ListKeys) :
                /\ Range(Get(results.business_info, k, <<>>)) = Range(Get(Reversed, k, <<>>))
                /\ Len(Get(results.business_info, k, <<>>)) = Len(Get(Reversed, k, <<>>))
           /\ \A k \in Range(BoolKeys) : results.business_info[k] = Reversed[k]
           /\ \A k \in Range(NumberKeys) :
                (\A i \in 1..2 : merged[i][k] # <<NaN>>)
                    => results.business_info[k] = Reversed[k]

\* two page-infos with overlapping lists, different flags and different numbers
C9_Witness ==
    /\ merged = <<InfoA, InfoB>>
    /\ results.business_info.phones = <<"p", "q", "r">>
    /\ Reversed.phones = <<"q", "r", "p">>
    /\ results.business_info.rating = <<Num(5)>>

\* with a NaN rating the order of the merges decides the rating
C9_NaNWitness ==
    /\ merged = <<InfoN, InfoA>>
    /\ results.business_info.rating = <<NaN>>
    /\ Reversed.rating = <<Num(4)>>

\* C10: every first-wins string field holds the first non-empty value in
\* merge order, and a non-empty one is never changed by a merge.
C10_FirstNonEmptyWins ==
    /\ [](pc = "merge" =>
            \A k \in Range(StringKeys) :
                Get(results.business_info, k, "") = FirstNonEmpty(merged, k, 1))
    /\ [][\A k \in Range(StringKeys) :
             Get(results.business_info, k, "") # ""
                 => Get(results'.business_info, k, "") = Get(results.business_info, k, "")]_vars

\* three pages gave three different websites and two different names
C10_Witness ==
    /\ merged = <<InfoC, InfoA, InfoB>>
    /\ results.business_info.website = "z"
    /\ results.business_info.business_name = "x"

(***************************************************************************)
(* Properties of the fetch path and of fetch errors.                       *)
(***************************************************************************)
\* the URL passed to _fetch_page last
LastFetched == fetch_log[Len(fetch_log)]

\* C11 as stated: when the loop is handed the fetch error of a page that
\* answers HTTP 500, the request for that URL has been attempted once and
\* then re-attempted the configured maximum number of times.
C11_AsStated ==
    (fetch_log # <<>> /\ error # "None" /\ status_code = <<500>>)
        => Count(LastFetched, request_log) = DEFAULT_MAX_RETRIES + 1

\* a step in which _fetch_page is called and returns an error
ErrorStep == fetch_log' # fetch_log /\ error' # "None"

\* C13: a fetch error on URL u leaves the loop running and changes nothing
\* but visited, which gains u, and the frontier, which loses its head u: the
\* profile, the counters, the schema URL lists and the rest of the frontier
\* stay, no links are extracted or queued, and every fetched URL stays in
\* visited.
C13_FetchErrorFrame ==
    /\ [][ErrorStep =>
            /\ fetch_log' = Append(fetch_log, Head(to_visit))
            /\ visited' = visited \cup {Head(to_visit)}
            /\ to_visit' = Tail(to_visit)
            /\ results' = results
            /\ info_complete' = info_complete
            /\ merged' = merged
            /\ links' = links /\ new_count' = new_count /\ external_count' = external_count
            /\ enqueue_log' = enqueue_log
            /\ pc' = "loop"]_vars
    /\ [](Range(fetch_log) \subseteq visited)

\* one of the first two fetches failed, and the loop went on to fetch a third
\* URL, which answered
C13_Witness ==
    /\ Len(fetch_log) = 3
    /\ results.total_pages_crawled = 2
    /\ error = "None"
    /\ status_code = <<200>>

(***************************************************************************)
(* Properties of retry_with_backoff.                                       *)
(***************************************************************************)
\* the result is a tuple without error and with a status that is not retried
GoodResult(res) ==
    res.kind = "tuple" /\ res.error = "None" /\ ~RetryableStatus(res.status)

\* C12: with max_retries = n >= 0 the wrapped function is invoked at most
\* n+1 times; the k-th wait (k = 1..) is backoff_factor * 2^(k-1) and there
\* is one wait per retry; the wrapper returns the first result without error
\* and with a non-retryable status; it delivers one outcome and no more, and
\* that outcome is what the last invocation did: its result returned, or its
\* exception raised.
C12_RetryBounded ==
    /\ []((pc = "retry" /\ max_retries >= 0) =>
            /\ calls <= max_retries + 1
            /\ Len(waits) = attempt
            /\ \A k \in 1..Len(waits) : waits[k] = backoff_factor * (2 ^ (k - 1))
            /\ Len(outcome) <= 1
            /\ outcome # <<>> =>
                  /\ calls = attempt + 1
                  /\ last_result = <<outcome[1].value>>
                  /\ outcome[1].kind = IF last_result[1].kind = "raise" THEN "raise" ELSE "return"
                  /\ (calls <= max_retries /\ last_result[1].kind = "raise")
                        => last_result[1].error \notin retryable_exceptions)
    /\ [][(pc = "retry" /\ calls' = calls + 1 /\ GoodResult(last_result'[1]))
             => outcome' = <<[kind |-> "return", value |-> last_result'[1]]>>]_vars
    /\ <>(outcome # <<>>)

\* three retries with waits 2, 4 and 8, then the fourth attempt raises again
\* and the exception is let through
C12_Witness ==
    /\ max_retries = 3
    /\ backoff_factor = 2
    /\ calls = 4
    /\ waits = <<2, 4, 8>>
    /\ outcome = <<[kind |-> "raise",
                    value |-> [kind |-> "raise", error |-> "RequestException",
                               status |-> <<>>]]>>

(***************************************************************************)
(* Properties of the path matchers, normalize_url and load_config.         *)
(***************************************************************************)
\* the call of fn has returned
Returned(fn) == pc = "util" /\ util_in.fn = fn /\ util_out # <<>>

\* the path of the call's URL, "/"-rooted and without trailing slashes
CallPath == NormalizedPath(util_in.args[1])

\* p equals q, or p begins with q followed by "/"
EqualOrBelow(p, q) == p = q \/ StartsWith(p, q \o <<"/">>)

\* the calls C14 is about: every call of is_path_excluded, and the calls of
\* contains_priority_path whose list does not hold the root pattern
SegmentCall ==
    \/ Returned("is_path_excluded")
    \/ Returned("contains_priority_path") /\ ~InSeq(<<"/">>, util_in.args[2])

\* C14 as stated: a path matches a pattern list iff, for one pattern q of the
\* list as it is written, the normalized path equals q or begins with q + "/".
C14_AsStated ==
    SegmentCall =>
        util_out[1] = (\E i \in 1..Len(util_in.args[2]) :
                           EqualOrBelow(CallPath, util_in.args[2][i]))

\* C14: a path matches a pattern list iff, for one pattern q of the list,
\* the normalized path equals q' or begins with q' + "/", where q' is q
\* without its trailing slashes (q itself when q is "/"); "/ab" does not
\* match "/a", and "/a/b" matches both "/a" and "/a/".
C14_SegmentMatch ==
    SegmentCall =>
        util_out[1] = (\E i \in 1..Len(util_in.args[2]) :
                           LET q == util_in.args[2][i]
                               stripped == IF q = <<"/">> THEN q ELSE RStrip(q, "/")
                           IN  EqualOrBelow(CallPath, stripped))

\* "/ab" was matched against "/a" and did not match
C14_Witness ==
    /\ Returned("is_path_excluded")
    /\ util_in.args = <<Url("https", "a.com", <<"/", "a", "b">>), <<<<"/", "a">>>>>>
    /\ util_out = <<FALSE>>

\* C15 as stated: with the one pattern "/", contains_priority_path is true
\* only for the root path, and is_path_excluded is true for every path.
C15_AsStated ==
    /\ (Returned("contains_priority_path") /\ util_in.args[2] = <<<<"/">>>>)
          => util_out[1] = (CallPath = <<"/">>)
    /\ (Returned("is_path_excluded") /\ util_in.args[2] = <<<<"/">>>>)
          => util_out[1] = TRUE

\* C16 as stated: a URL returned by normalize_url does not end in "/" unless
\* its path is the root (the URLs of the model carry no fragment).
C16_AsStated ==
    (Returned("normalize_url") /\ util_out[1] # None)
        => (util_out[1].path = <<"/">> \/ ~EndsWith(util_out[1].path, "/"))

\* C20 as stated: load_config raises for no file, and a list whose value in
\* the file is not a list of strings comes back empty.
C20_AsStated ==
    Returned("load_config") =>
        /\ util_out[1].raised = "None"
        /\ \A key \in {"exclude_paths", "priority_paths"} :
              LET file  == util_in.args[1]
                  value == IF file.state = "json" /\ file.data.type = "object"
                           THEN Member(file.data, key) ELSE JNull
                  listOfStrings ==
                      /\ value.type = "array"
                      /\ \A i \in 1..Len(value.items) : value.items[i].type = "string"
              IN  ~listOfStrings => util_out[1][key] = <<>>

(***************************************************************************)
(* Properties of the frontier.                                             *)
(***************************************************************************)
\* the links of the last page whose host is not the start domain
ExternalLinks == {l \in links : get_domain(l) # Lower(start_domain)}

\* C17: every URL that is in the frontier, was ever enqueued or was fetched
\* has the start domain as its host, letter case apart; every link of a page
\* to another host (a subdomain included) is counted as external, and is
\* neither enqueued nor marked visited.
C17_SameDomainFrontier ==
    /\ \A u \in Range(to_visit) \cup Range(enqueue_log) \cup Range(fetch_log) :
          get_domain(u) = Lower(start_domain)
    /\ external_count = Cardinality(ExternalLinks)
    /\ \A l \in ExternalLinks :
          l \notin Range(to_visit) \cup Range(enqueue_log) \cup visited

\* a page linked to "https://www.a.com/" and to "https://a.com": the first
\* was counted as external, the second was enqueued and later fetched
C17_Witness ==
    /\ links = {Url("https", "www.a.com", <<"/">>), Url("https", "a.com", <<>>)}
    /\ external_count = 1
    /\ new_count = 1
    /\ InSeq(Url("https", "a.com", <<>>), fetch_log)

\* the URL is excluded by the configuration of the crawl
Excluded(u) == is_path_excluded(u, config.exclude_paths)

\* C18: no URL that matches an exclude pattern is fetched or requested; the
\* only excluded URL that is ever queued is the seed; a dequeued excluded URL
\* is marked visited and dropped with no fetch; an excluded same-domain link
\* of a page is in visited and not in the frontier.
C18_ExcludedNeverFetched ==
    /\ [](\A u \in Range(fetch_log) \cup Range(request_log) : ~Excluded(u))
    /\ [](\A u \in Range(to_visit) \cup Range(enqueue_log) :
              Excluded(u) => u = homepage_url)
    /\ [](\A l \in links :
              (is_same_domain(l, start_domain) /\ Excluded(l))
                  => (l \in visited /\ ~InSeq(l, to_visit)))
    /\ [][(/\ pc = "loop" /\ LoopGuard /\ to_visit # <<>>
           /\ Head(to_visit) \notin visited
           /\ Excluded(Head(to_visit)))
             => /\ visited' = visited \cup {Head(to_visit)}
                /\ to_visit' = Tail(to_visit)
                /\ fetch_log' = fetch_log
                /\ request_log' = request_log
                /\ results' = results]_vars

\* "/b" is excluded, a fetched page linked to it, and the crawl went on: the
\* link is in visited and was neither queued nor fetched
C18_Witness ==
    /\ config.exclude_paths = <<<<"/", "b">>>>
    /\ Url("https", "a.com", <<"/", "b">>) \in links
    /\ Url("https", "a.com", <<"/", "b">>) \in visited
    /\ ~InSeq(Url("https", "a.com", <<"/", "b">>), enqueue_log)
    /\ Len(fetch_log) >= 2
    /\ to_visit = <<>>

(***************************************************************************)
(* Properties of cancellation.                                             *)
(***************************************************************************)
\* C19 as stated: when a crawl was interrupted inside the loop after page
\* data had been merged, the results merged so far have been handed to the
\* caller.
C19_AsStated == (pc = "cancelled" /\ merged # <<>>) => returned = <<results>>

(***************************************************************************)
(* Properties of the crawl results.                                        *)
(***************************************************************************)
\* the counters and URL lists of a CrawlResults agree with each other
Consistent(r) ==
    /\ r.total_pages_crawled = r.priority_pages_found + r.remaining_pages_found
    /\ r.priority_pages_with_schema <= r.priority_pages_found
    /\ r.remaining_pages_with_schema <= r.remaining_pages_found
    /\ Len(r.priority_schemas_found) = r.priority_pages_with_schema
    /\ Len(r.remaining_schemas_found) = r.remaining_pages_with_schema
    /\ NoDuplicates(r.priority_schemas_found \o r.remaining_schemas_found)

\* C21: in every state between two loop iterations, and in the result that
\* is returned, the total is the sum of the priority and the remaining
\* count, each with-schema count is at most its page count, each URL list is
\* as long as its with-schema count, and no URL is twice in the two lists
\* taken together.
C21_CountersConsistent ==
    /\ Consistent(results)
    /\ returned # <<>> => (Consistent(returned[1]) /\ returned[1] = results)

\* a returned result with pages of both classes, with and without schema
C21_Witness ==
    /\ returned # <<>>
    /\ returned[1].priority_pages_with_schema >= 1
    /\ returned[1].priority_pages_found > returned[1].priority_pages_with_schema
    /\ returned[1].remaining_pages_with_schema = 1
    /\ returned[1].total_pages_crawled = 4

(***************************************************************************)
(* Properties of the order of the crawl.                                   *)
(***************************************************************************)
\* the position at which the URL was put on the frontier
EnqueuedAt(url) == CHOOSE i \in 1..Len(enqueue_log) : enqueue_log[i] = url

\* C22: the start URL is a page below the root and the one seed is the root
\* of its domain; the frontier is at all times the not yet dequeued tail of
\* the enqueue order, so URLs are fetched in the order they were enqueued;
\* the link depths of the fetched URLs are non-decreasing, and no queued URL
\* is shallower than a fetched one.
C22_BreadthFirst ==
    /\ start_url.path # <<"/">>
    /\ enqueue_log[1] = Url("https", "a.com", <<"/">>)
    /\ depth_log[1] = 0
    /\ Len(depth_log) = Len(enqueue_log)
    /\ to_visit = SubSeq(enqueue_log, Len(enqueue_log) - Len(to_visit) + 1, Len(enqueue_log))
    /\ \A i, j \in 1..Len(fetch_log) :
          i < j => /\ EnqueuedAt(fetch_log[i]) < EnqueuedAt(fetch_log[j])
                   /\ DepthOf(fetch_log[i]) <= DepthOf(fetch_log[j])
    /\ \A i \in 1..Len(fetch_log) : \A j \in 1..Len(to_visit) :
          DepthOf(fetch_log[i]) <= DepthOf(to_visit[j])

\* the seed, two pages of depth 1 and then a page of depth 2 were fetched
C22_Witness ==
    /\ Len(fetch_log) = 4
    /\ DepthOf(fetch_log[2]) = 1
    /\ DepthOf(fetch_log[3]) = 1
    /\ DepthOf(fetch_log[4]) = 2

(***************************************************************************)
(* Properties of a page without schema.                                    *)
(***************************************************************************)
\* a step in which a page was fetched and counted and no schema was found
NoSchemaStep ==
    /\ fetch_log' # fetch_log
    /\ results'.total_pages_crawled = results.total_pages_crawled + 1
    /\ results'.priority_pages_with_schema = results.priority_pages_with_schema
    /\ results'.remaining_pages_with_schema = results.remaining_pages_with_schema

\* C23: a step that fetches a page on which no schema is found leaves the
\* business profile, the saved pages, the merged page-infos, the two schema
\* URL lists and the configuration as they were; the saved pages are at all
\* times the pages of the two schema URL lists, one per merged page-info.
C23_NoSchemaFrame ==
    /\ [][NoSchemaStep =>
            /\ results'.business_info = results.business_info
            /\ saved' = saved
            /\ merged' = merged
            /\ results'.priority_schemas_found = results.priority_schemas_found
            /\ results'.remaining_schemas_found = results.remaining_schemas_found
            /\ config' = config /\ max_pages' = max_pages]_vars
    /\ [](/\ Range(saved) = Range(results.priority_schemas_found)
                              \cup Range(results.remaining_schemas_found)
          /\ Len(saved) = Len(merged))

\* the second fetched page had no schema: one page was saved and merged, two
\* were counted
C23_Witness ==
    /\ Len(fetch_log) = 2
    /\ results.total_pages_crawled = 2
    /\ saved = <<fetch_log[1]>>
    /\ merged = <<AboutInfo>>
    /\ results.business_info = merge_business_info(_init_business_info, AboutInfo)

(***************************************************************************)
(* Properties of the merged lists.                                         *)
(***************************************************************************)
\* the values of key k of the merged page-infos from the i-th on, one after
\* the other
RECURSIVE AllItems(_, _)
AllItems(k, i) ==
    IF i > Len(merged) THEN <<>>
    ELSE Get(merged[i], k, <<>>) \o AllItems(k, i + 1)

\* the first position of x in seq
First(x, seq) == CHOOSE n \in 1..Len(seq) : seq[n] = x /\ \A m \in 1..(n - 1) : seq[m] # x

\* the first position in seq of a founder of the name
FirstNamed(name, seq) ==
    CHOOSE n \in 1..Len(seq) : seq[n].name = name /\ \A m \in 1..(n - 1) : seq[m].name # name

\* C24: after any sequence of merges into the empty profile, every list
\* field holds exactly the non-empty items of the merged pages, each once,
\* in the order of their first appearance; founders holds one entry for each
\* non-empty name of the merged pages, the first one merged with that name,
\* in the order of first appearance.
C24_ListsFirstSeen ==
    pc = "merge" =>
        /\ \A n \in 1..Len(ListKeys) :
              LET list == Get(results.business_info, ListKeys[n], <<>>)
                  seen == AllItems(ListKeys[n], 1)
              IN  /\ \A a \in 1..Len(list) : list[a] # ""
                  /\ NoDuplicates(list)
                  /\ Range(list) = Range(seen) \ {""}
                  /\ \A a, b \in 1..Len(list) :
                        a < b => First(list[a], seen) < First(list[b], seen)
        /\ LET founders == Get(results.business_info, "founders", <<>>)
               seen     == AllItems("founders", 1)
           IN  /\ \A a, b \in 1..Len(founders) :
                     founders[a].name = founders[b].name => a = b
               /\ {founders[a].name : a \in 1..Len(founders)}
                     = {seen[m].name : m \in 1..Len(seen)} \ {""}
               /\ \A a \in 1..Len(founders) :
                     founders[a] = seen[FirstNamed(founders[a].name, seen)]
               /\ \A a, b \in 1..Len(founders) :
                     a < b => FirstNamed(founders[a].name, seen)
                                 < FirstNamed(founders[b].name, seen)

\* a page with phones p, q and founder Ann (CEO) was merged, then a page with
\* phones q, "", r, r and founders Ann (CTO), "" and Bob
C24_Witness ==
    /\ pc = "merge"
    /\ Len(merged) = 3
    /\ merged[1] = InfoA
    /\ merged[2] = InfoB
    /\ results.business_info.phones = <<"p", "q", "r">>
    /\ results.business_info.founders =
          <<[name |-> "Ann", jobTitle |-> "CEO"], [name |-> "Bob", jobTitle |-> ""]>>

(***************************************************************************)
(* Properties of the markup pass of extract_business_info.                 *)
(***************************************************************************)
\* C25 as stated: each of phones, emails, business_name, logo, quote_url,
\* hours and addresses that the schema pass left non-empty has, after the
\* markup pass, the value the schema pass gave it.
C25_AsStated ==
    Returned("_extract_from_html") =>
        LET before == util_in.args[2]
            after  == util_out[1]
        IN  /\ \A k \in {"phones", "emails", "addresses"} :
                  before[k] # <<>> => after[k] = before[k]
            /\ \A k \in {"business_name", "logo", "quote_url", "hours"} :
                  before[k] # "" => after[k] = before[k]

(***************************************************************************)
(* Properties of the dedup key.                                            *)
(***************************************************************************)
\* the two URLs are equal, or differ by trailing slashes of the path only
SamePage(u, v) ==
    u.scheme = v.scheme /\ u.netloc = v.netloc /\ RStrip(u.path, "/") = RStrip(v.path, "/")

\* C26 as stated: no two fetches of a crawl are of the same page under two
\* spellings that differ by a trailing slash; the homepage is fetched once.
C26_AsStated ==
    \A i, j \in 1..Len(fetch_log) : SamePage(fetch_log[i], fetch_log[j]) => i = j

(***************************************************************************)
(* Properties of the frontier and the visited set.                         *)
(***************************************************************************)
\* C27: the frontier holds no URL twice and no visited URL, so the URL that
\* the next iteration dequeues is never in visited.
C27_FrontierDisjoint ==
    /\ NoDuplicates(to_visit)
    /\ Range(to_visit) \cap visited = {}
    /\ (pc = "loop" /\ LoopGuard /\ to_visit # <<>>) => Head(to_visit) \notin visited

\* the last page linked to a visited URL and to a queued URL and added
\* neither; the loop goes on
C27_Witness ==
    /\ pc = "loop"
    /\ LoopGuard
    /\ Len(fetch_log) >= 2
    /\ new_count = 0
    /\ \E l \in links : l \in visited
    /\ \E l \in links : InSeq(l, to_visit)

(***************************************************************************)
(* Properties of completeness over a crawl.                                *)
(***************************************************************************)
\* seq begins with prefix
IsPrefix(prefix, seq) ==
    Len(prefix) <= Len(seq) /\ SubSeq(seq, 1, Len(prefix)) = prefix

\* C28: no step of a crawl shrinks or empties a required field: phones,
\* addresses and services only grow at the end, and a non-empty
\* business_name or hours keeps its value; so a profile that is complete is
\* complete after every later step, and a verdict of completeness taken at
\* line 229 stays true of the profile.
C28_CompletenessMonotone ==
    /\ [][/\ \A k \in {"phones", "addresses", "services"} :
                IsPrefix(results.business_info[k], results'.business_info[k])
          /\ \A k \in {"business_name", "hours"} :
                results.business_info[k] # ""
                    => results'.business_info[k] = results.business_info[k]
          /\ _is_business_info_complete(results.business_info)
                => _is_business_info_complete(results'.business_info)]_vars
    /\ [](info_complete => _is_business_info_complete(results.business_info))

\* the first merged page completed the profile; a page with only a name and
\* an address was merged after it and the profile is complete as before
C28_Witness ==
    /\ Len(merged) >= 2
    /\ merged[1] = FullInfo
    /\ merged[2] = AboutInfo
    /\ _is_business_info_complete(results.business_info)
    /\ results.business_info.business_name = "Acme Plumbing"
    /\ results.business_info.phones = <<"+15559876543">>

(***************************************************************************)
(* Properties of the early stop.                                           *)
(***************************************************************************)
\* a step in which a page was fetched and counted
PageStep == results'.total_pages_crawled = results.total_pages_crawled + 1

\* the links found in the step that the link loop has to enqueue
NewLinks ==
    {l \in links' : /\ is_same_domain(l, start_domain)
                    /\ ~Excluded(l)
                    /\ l \notin visited \cup {Head(to_visit)}
                    /\ ~InSeq(l, Tail(to_visit))}

\* C29: a step that processes a page after which the profile is complete and
\* the frontier is empty ends the crawl with no link read, enqueued or
\* counted, and nothing is fetched afterwards; every other step that
\* processes a page goes on with the loop and puts all same-domain,
\* non-excluded, not yet seen links of the page on the frontier, and no
\* other URL.
C29_EarlyStopSkipsLinks ==
    /\ [][PageStep =>
            IF _is_business_info_complete(results'.business_info) /\ Tail(to_visit) = <<>>
            THEN /\ pc' = "crawl_complete"
                 /\ to_visit' = <<>>
                 /\ enqueue_log' = enqueue_log
                 /\ links' = links
                 /\ new_count' = new_count
                 /\ external_count' = external_count
            ELSE /\ pc' = "loop"
                 /\ Range(to_visit') = Range(Tail(to_visit)) \cup NewLinks
                 /\ Range(enqueue_log') = Range(enqueue_log) \cup NewLinks
                 /\ new_count' = Cardinality(NewLinks)]_vars
    /\ [][pc = "crawl_complete" => (fetch_log' = fetch_log /\ to_visit' = to_visit)]_vars

\* the second fetched page completed the profile with nothing queued: the
\* crawl ended below the ceiling and the link counts are those of the first
\* page
C29_Witness ==
    /\ pc = "crawl_complete"
    /\ Len(fetch_log) = 2
    /\ results.total_pages_crawled = 2
    /\ max_pages = 4
    /\ Len(enqueue_log) = 2
    /\ new_count = 1

(***************************************************************************)
(* Properties of the social media map.                                     *)
(***************************************************************************)
\* the social_media dict of the i-th merged page-info
SocialOf(i) == Get(merged[i], "social_media", <<>>)

\* the last merged page-info that names the platform
LastNaming(platform) ==
    CHOOSE i \in 1..Len(merged) :
        /\ platform \in DOMAIN SocialOf(i)
        /\ \A j \in (i + 1)..Len(merged) : platform \notin DOMAIN SocialOf(j)

\* C30: the platforms of the profile are the platforms of all merged pages,
\* each with the URL of the last merged page that names it; a merge never
\* removes a platform.
C30_SocialLastWins ==
    /\ [](pc = "merge" =>
            LET social == Get(results.business_info, "social_media", <<>>)
            IN  /\ DOMAIN social = UNION {DOMAIN SocialOf(i) : i \in 1..Len(merged)}
                /\ \A platform \in DOMAIN social :
                      social[platform] = SocialOf(LastNaming(platform))[platform])
    /\ [][pc = "merge" =>
             DOMAIN Get(results.business_info, "social_media", <<>>)
                 \subseteq DOMAIN Get(results'.business_info, "social_media", <<>>)]_vars

\* a page with a facebook and a twitter URL was merged, then a page with
\* another facebook URL: the later facebook URL and the twitter URL are kept
C30_Witness ==
    /\ pc = "merge"
    /\ merged = <<InfoB, InfoA>>
    /\ results.business_info.social_media =
          [facebook |-> "fb.com/acme", twitter |-> "x.com/acme"]

=============================================================================
